---- MODULE Spec2Model ----
(***************************************************************************)
(* Model of aliceVision::sfm::SfMLocalizer (SfMLocalizer.cpp):             *)
(*   Localize   - robust resection of one image from 2D-3D matches         *)
(*   RefinePose - non linear refinement of the pose on the inliers         *)
(*                                                                         *)
(* Geometry is modelled by its one dimensional analogue: a point is an     *)
(* integer, a rotation is +1 or -1 (the 1x1 orthogonal matrices), a        *)
(* projection matrix is the pair <<K*R, K*t>>.  The robust estimators, the *)
(* strong support check and the bundle adjustment are collaborators whose  *)
(* results are inputs of the actions, drawn from bounded sets.             *)
(***************************************************************************)
EXTENDS Integers, Sequences, FiniteSets, TLC

VARIABLES resectionData, pose, intrinsics, call

vars == <<resectionData, pose, intrinsics, call>>

----------------------------------------------------------------------------
(* Bounds of the model *)

NumPts == 2        \* number of 2D-3D correspondences of the match data
MaxErr == 2        \* largest finite error threshold supplied or estimated

(* Program constants *)

Infinity == 1000000          \* std::numeric_limits<double>::infinity()
DefaultLoThreshold == 4      \* the LORansac safeguard value 4.0
SixPointMinimumSamples == 6  \* SixPointResectionSolver::MINIMUM_SAMPLES
P3PMinimumSamples == 3       \* P3PSolver::MINIMUM_SAMPLES
CallerObject == "caller"     \* identity of the caller's intrinsics object
CloneObject == "clone"       \* identity of the object made by clone()

\* the product of two doubles: infinity times a positive value is infinity
Times(x, y) == IF x = Infinity \/ y = Infinity THEN Infinity ELSE x * y

Square(x) == Times(x, x)

Estimators == {"ACRANSAC", "LORANSAC", "RANSAC"}

PinholeFamily == {"Pinhole"}

CameraTypes == {"Pinhole", "EquiDistant"}

NullPtr == [id |-> "nullptr", type |-> "null", valid |-> FALSE, have_disto |-> FALSE, params |-> 0]

Thresholds == (1..MaxErr) \cup {Infinity}

\* the index vectors a robust estimator can hand back: increasing indices
InlierSeqs ==
  {s \in UNION {[1..n -> 1..NumPts] : n \in 0..NumPts} :
     \A i \in 1..Len(s) : \A j \in 1..Len(s) : i < j => s[i] < s[j]}

\* fitted matrices <<K*R, K*t>> with K = 2, R in {1,-1}, t = 1
ProjMats == {<<2 * r, 2>> : r \in {1, -1}}

\* values of kernel.normalizer2()(0,0)
Normalizers == {1, 3}

\* what the bundle adjustment can leave in the scene it was given
AdjustedPoses == {[R |-> 1, C |-> 3], [R |-> -1, C |-> 4]}

AdjustedParams == {1, 2}

----------------------------------------------------------------------------
(* Collaborators of the camera and multiview modules *)

\* Pinhole::get_ud_pixel: the undistorted counterpart of a pixel
get_ud_pixel(cam, p) == p + cam.params

\* KRt_From_P: decomposition of P = K [R | t]
KRt_From_P(P) ==
  LET K == IF P[1] < 0 THEN 0 - P[1] ELSE P[1]
  IN [K |-> K, R |-> P[1] \div K, t |-> P[2] \div K]

\* IntrinsicBase::clone: a new object of the same type and state
clone(cam) == [cam EXCEPT !.id = CloneObject]

\* IntrinsicBase::assign: copy the state of other onto the object itself
assign(self, other) == [other EXCEPT !.id = self.id, !.type = self.type]

----------------------------------------------------------------------------
(* SfMLocalizer::Localize *)

\* variant: the threshold is handed over as it is, not squared
PrecisionBound_NotSquared(error_max) ==
  IF error_max = Infinity THEN Infinity ELSE error_max

\* the admissible upper bound residual error handed to ACRANSAC
PrecisionBound(error_max) ==
  IF error_max = Infinity THEN Infinity ELSE Square(error_max)

\* dynamic_cast<const camera::Pinhole*>(optionalIntrinsics)
CastToPinhole(optionalIntrinsics) ==
  IF optionalIntrinsics.id # NullPtr.id /\ optionalIntrinsics.type \in PinholeFamily
  THEN optionalIntrinsics ELSE NullPtr

\* variant: the validity of the pinhole camera is not looked at
IsUncalibrated_NullOnly(pinholeCam) == pinholeCam.id = NullPtr.id

\* the test that selects the classic resection
IsUncalibrated(pinholeCam) == pinholeCam.id = NullPtr.id \/ ~pinholeCam.valid

\* the local matrix pt2Dundistorted (left empty when the camera has no distortion)
Undistort(pinholeCam, pt2D) ==
  IF pinholeCam.have_disto
  THEN [i \in DOMAIN pt2D |-> get_ud_pixel(pinholeCam, pt2D[i])]
  ELSE <<>>

\* variant: the kernel is built on the points of the match data
KernelPoints_AlwaysOriginal(hasDistortion, pt2Dundistorted, pt2D) == pt2D

\* the 2D points given to the calibrated kernels
KernelPoints(hasDistortion, pt2Dundistorted, pt2D) ==
  IF hasDistortion THEN pt2Dundistorted ELSE pt2D

\* a run of ACRANSAC on a kernel: inliers and model through the out parameters,
\* the precision found stored in the match data
RunACRansac(rd, path, solver, minimumSamples, pts, precision, out) ==
  [path |-> path,
   solver |-> solver,
   minimumSamples |-> minimumSamples,
   kernelPt2D |-> pts,
   upperBound |-> {precision},
   normalizer |-> {},
   scorerThreshold |-> {},
   inliers |-> out.inliers,
   P |-> out.P,
   precisionOut |-> {out.errorMax},
   rd |-> [rd EXCEPT !.vec_inliers = out.inliers, !.error_max = out.errorMax],
   writes |-> {[field |-> "vec_inliers", from |-> "estimator"],
               [field |-> "error_max", from |-> "estimator"]}]

\* classic resection: six point solver under ACRANSAC
ResectionSixPoint(rd, precision, out) ==
  RunACRansac(rd, "uncalibrated", "SixPoint", SixPointMinimumSamples,
              rd.pt2D, precision, out)

\* calibrated resection, case ACRANSAC: P3P solver under ACRANSAC
ResectionACRansacK(rd, pts, precision, out) ==
  RunACRansac(rd, "ACRANSAC", "P3P", P3PMinimumSamples, pts, precision, out)

\* variant: no safeguard
LoSafeguard_Missing(error_max) == error_max

\* the safeguard of the LORANSAC case
LoSafeguard(error_max) ==
  IF error_max = Infinity THEN DefaultLoThreshold ELSE error_max

\* the threshold given to the ScoreEvaluator
ScorerThreshold(error_max, normalizer) ==
  Times(Times(error_max, error_max), Times(normalizer, normalizer))

\* calibrated resection, case LORANSAC: P3P solver under LO_RANSAC
ResectionLORansacK(rd, pts, normalizer, out) ==
  LET errorMax == LoSafeguard(rd.error_max)
  IN [path |-> "LORANSAC",
      solver |-> "P3P",
      minimumSamples |-> P3PMinimumSamples,
      kernelPt2D |-> pts,
      upperBound |-> {},
      normalizer |-> {normalizer},
      scorerThreshold |-> {ScorerThreshold(errorMax, normalizer)},
      inliers |-> out.inliers,
      P |-> out.P,
      precisionOut |-> {},
      rd |-> [rd EXCEPT !.vec_inliers = out.inliers, !.error_max = errorMax],
      writes |-> {[field |-> "vec_inliers", from |-> "estimator"]}
                 \cup (IF rd.error_max = Infinity
                       THEN {[field |-> "error_max", from |-> "default"]}
                       ELSE {})]

\* variant: the default case leaves the switch instead of throwing
UnsupportedEstimator_NoThrow(rd) ==
  [path |-> "default",
   solver |-> "none",
   minimumSamples |-> 0,
   kernelPt2D |-> <<>>,
   upperBound |-> {},
   normalizer |-> {},
   scorerThreshold |-> {},
   inliers |-> <<>>,
   P |-> <<1, 0>>,
   precisionOut |-> {},
   rd |-> rd,
   writes |-> {}]

\* the default case of the switch: nothing is estimated
UnsupportedEstimator(rd) ==
  [path |-> "unsupported",
   solver |-> "none",
   minimumSamples |-> 0,
   kernelPt2D |-> <<>>,
   upperBound |-> {},
   normalizer |-> {},
   scorerThreshold |-> {},
   inliers |-> <<>>,
   P |-> <<>>,
   precisionOut |-> {},
   rd |-> rd,
   writes |-> {}]

\* the robust estimation of Localize, up to the strong support check
RobustResection(rd, optionalIntrinsics, estimator, normalizer, out) ==
  LET cleared == [rd EXCEPT !.vec_inliers = <<>>]
      precision == PrecisionBound(rd.error_max)
      pinholeCam == CastToPinhole(optionalIntrinsics)
  IN IF IsUncalibrated(pinholeCam)
     THEN ResectionSixPoint(cleared, precision, out)
     ELSE LET hasDistortion == pinholeCam.have_disto
              pt2Dundistorted == Undistort(pinholeCam, cleared.pt2D)
              pts == KernelPoints(hasDistortion, pt2Dundistorted, cleared.pt2D)
          IN CASE estimator = "ACRANSAC" ->
                    ResectionACRansacK(cleared, pts, precision, out)
               [] estimator = "LORANSAC" ->
                    ResectionLORansacK(cleared, pts, normalizer, out)
               [] OTHER ->
                    UnsupportedEstimator(cleared)

\* variant: the fitted matrix and the pose are stored before the verdict is read
StoreResection_AlwaysStores(rd, oldPose, P, resection) ==
  LET KRt == KRt_From_P(P)
  IN [ret |-> resection,
      rd |-> [rd EXCEPT !.projection_matrix = P],
      pose |-> [R |-> KRt.R, C |-> 0 - (KRt.R * KRt.t)],
      writes |-> {[field |-> "projection_matrix", from |-> "estimator"]}]

\* variant: the pose is set on support, the fitted matrix is not stored
StoreResection_PoseOnly(rd, oldPose, P, resection) ==
  IF resection
  THEN LET KRt == KRt_From_P(P)
       IN [ret |-> resection,
           rd |-> rd,
           pose |-> [R |-> KRt.R, C |-> 0 - (KRt.R * KRt.t)],
           writes |-> {}]
  ELSE [ret |-> resection, rd |-> rd, pose |-> oldPose, writes |-> {}]

\* the end of Localize: the fitted matrix and the pose are stored on support
StoreResection(rd, oldPose, P, resection) ==
  IF resection
  THEN LET KRt == KRt_From_P(P)
       IN [ret |-> resection,
           rd |-> [rd EXCEPT !.projection_matrix = P],
           pose |-> [R |-> KRt.R, C |-> 0 - (KRt.R * KRt.t)],
           writes |-> {[field |-> "projection_matrix", from |-> "estimator"]}]
  ELSE [ret |-> resection, rd |-> rd, pose |-> oldPose, writes |-> {}]

\* the caller's objects as a call finds them
Entry == [resectionData |-> resectionData, pose |-> pose, intrinsics |-> intrinsics]

\* out, normalizer and support are what ACRANSAC or LO_RANSAC, the kernel and
\* hasStrongSupport answer when the call reaches them
Localize(optionalIntrinsics, estimator, out, normalizer, support) ==
  \E run \in {RobustResection(resectionData, optionalIntrinsics, estimator,
                              normalizer, out)} :
    LET made == [op |-> "Localize",
                 entry |-> Entry,
                 optionalIntrinsics |-> optionalIntrinsics.id,
                 estimator |-> estimator,
                 path |-> run.path,
                 solver |-> run.solver,
                 minimumSamples |-> run.minimumSamples,
                 kernelPt2D |-> run.kernelPt2D,
                 upperBound |-> run.upperBound,
                 normalizer |-> run.normalizer,
                 scorerThreshold |-> run.scorerThreshold,
                 precisionOut |-> run.precisionOut,
                 inliers |-> run.inliers,
                 P |-> run.P]
        cleared == {[field |-> "vec_inliers", from |-> "clear"]}
    IN IF run.path = "unsupported"
       THEN \* throw std::runtime_error
            /\ resectionData' = run.rd
            /\ UNCHANGED <<pose, intrinsics>>
            /\ call' = made
                         @@ [outcome |-> "threw", resection |-> FALSE, ret |-> FALSE,
                             supportArgs |-> <<>>, writes |-> cleared]
       ELSE \E end \in {StoreResection(run.rd, pose, run.P, support)} :
            /\ resectionData' = end.rd
            /\ pose' = end.pose
            /\ UNCHANGED intrinsics
            /\ call' = made
                         @@ [outcome |-> "returned", resection |-> support,
                             ret |-> end.ret,
                             supportArgs |-> <<run.rd.vec_inliers,
                                               run.rd.vec_descType,
                                               run.minimumSamples>>,
                             writes |-> cleared \cup run.writes \cup end.writes]

----------------------------------------------------------------------------
(* SfMLocalizer::RefinePose *)

\* the tiny scene: view 0, its pose, a clone of the intrinsics, and one
\* landmark with one observation in view 0 for each inlier
TinyScene(cam, p, matchingData) ==
  [views |-> {0},
   poses |-> (0 :> p),
   intrinsics |-> (0 :> clone(cam)),
   structure |->
     [i \in 0..(Len(matchingData.vec_inliers) - 1) |->
        LET idx == matchingData.vec_inliers[i + 1]
        IN [X |-> matchingData.pt3D[idx],
            observations |->
              (0 :> [x |-> matchingData.pt2D[idx], id_feat |-> "UndefinedIndexT"])]]]

\* variant: refinePose frees the rotation alone
RefineOptions_RotationOnly(refinePose, refineIntrinsic) ==
  (IF refinePose THEN {"BA_REFINE_ROTATION"} ELSE {})
  \cup (IF refineIntrinsic THEN {"BA_REFINE_INTRINSICS_ALL"} ELSE {})

\* the mask given to the bundle adjustment
RefineOptions(refinePose, refineIntrinsic) ==
  (IF refinePose THEN {"BA_REFINE_ROTATION", "BA_REFINE_TRANSLATION"} ELSE {})
  \cup (IF refineIntrinsic THEN {"BA_REFINE_INTRINSICS_ALL"} ELSE {})

\* variant: the intrinsics are assigned whether or not they were refined
RefineResult_AlwaysAssigns(cam, oldPose, scene, refineIntrinsic, baStatus) ==
  IF ~baStatus
  THEN [ret |-> FALSE, pose |-> oldPose, intrinsics |-> cam]
  ELSE [ret |-> TRUE,
        pose |-> scene.poses[0],
        intrinsics |-> assign(cam, scene.intrinsics[0])]

\* variant: the pose is copied out of the scene before the status is tested
RefineResult_PoseBeforeStatus(cam, oldPose, scene, refineIntrinsic, baStatus) ==
  IF ~baStatus
  THEN [ret |-> FALSE, pose |-> scene.poses[0], intrinsics |-> cam]
  ELSE [ret |-> TRUE,
        pose |-> scene.poses[0],
        intrinsics |-> IF refineIntrinsic THEN assign(cam, scene.intrinsics[0])
                       ELSE cam]

\* what RefinePose gives back to the caller once Adjust has answered
RefineResult(cam, oldPose, scene, refineIntrinsic, baStatus) ==
  IF ~baStatus
  THEN [ret |-> FALSE, pose |-> oldPose, intrinsics |-> cam]
  ELSE [ret |-> TRUE,
        pose |-> scene.poses[0],
        intrinsics |-> IF refineIntrinsic THEN assign(cam, scene.intrinsics[0])
                       ELSE cam]

\* baStatus and adjusted are the answer of BundleAdjustmentCeres::Adjust: its
\* status, and the pose and intrinsic parameters it leaves in the scene
RefinePose(refinePose, refineIntrinsic, baStatus, adjusted) ==
  \E tinyScene \in {TinyScene(intrinsics, pose, resectionData)} :
  \E refineOptions \in {RefineOptions(refinePose, refineIntrinsic)} :
    LET scene == [tinyScene EXCEPT !.poses[0] = adjusted.pose,
                                   !.intrinsics[0].params = adjusted.params]
        res == RefineResult(intrinsics, pose, scene, refineIntrinsic, baStatus)
    IN /\ pose' = res.pose
       /\ intrinsics' = res.intrinsics
       /\ UNCHANGED resectionData
       /\ call' = [op |-> "RefinePose",
                   entry |-> Entry,
                   refinePose |-> refinePose,
                   refineIntrinsic |-> refineIntrinsic,
                   tinyScene |-> tinyScene,
                   refineOptions |-> refineOptions,
                   baStatus |-> baStatus,
                   adjusted |-> scene,
                   ret |-> res.ret]

----------------------------------------------------------------------------
(* The caller: one localization attempt on match data and intrinsics in any *)
(* state an earlier attempt can have left them in                           *)

Init ==
  /\ resectionData \in
       [pt2D : {[i \in 1..NumPts |-> i]},
        pt3D : {[i \in 1..NumPts |-> 10 * i]},
        vec_descType : {[i \in 1..NumPts |-> "SIFT"]},
        max_iteration : {8},
        error_max : Thresholds,
        vec_inliers : InlierSeqs,
        projection_matrix : {<<1, 0>>}]
  /\ pose = [R |-> 1, C |-> 0]
  /\ intrinsics \in
       [id : {CallerObject}, type : CameraTypes, valid : BOOLEAN,
        have_disto : BOOLEAN, params : {1}]
  /\ call = [op |-> "none"]

\* the resection comes first
CanLocalize == call.op = "none"

\* the refinement is run on its own or on the result of a successful resection
CanRefinePose ==
  call.op = "none" \/ (call.op = "Localize" /\ call.outcome = "returned" /\ call.ret)

\* a call of Localize by the caller, with any arguments and any answers of
\* the estimator, the kernel and the strong support check
LocalizeCall ==
  /\ CanLocalize
  /\ \E optionalIntrinsics \in {NullPtr, intrinsics}, estimator \in Estimators,
        out \in [inliers : InlierSeqs, P : ProjMats, errorMax : Thresholds],
        normalizer \in Normalizers, support \in BOOLEAN :
       Localize(optionalIntrinsics, estimator, out, normalizer, support)

\* a call of RefinePose by the caller, with any flags and any answer of the
\* bundle adjustment
RefinePoseCall ==
  /\ CanRefinePose
  /\ \E refinePose \in BOOLEAN, refineIntrinsic \in BOOLEAN, baStatus \in BOOLEAN,
        adjusted \in [pose : AdjustedPoses, params : AdjustedParams] :
       RefinePose(refinePose, refineIntrinsic, baStatus, adjusted)

Next == LocalizeCall \/ RefinePoseCall

Spec == Init /\ [][Next]_vars

----------------------------------------------------------------------------
(* Properties *)

LocalizeCalled == call.op = "Localize"

LocalizeReturned == call.op = "Localize" /\ call.outcome = "returned"

LocalizeThrew == call.op = "Localize" /\ call.outcome = "threw"

RefinePoseCalled == call.op = "RefinePose"

SupportedEstimators == {"ACRANSAC", "LORANSAC"}

AdaptivePaths == {"uncalibrated", "ACRANSAC"}

ResultFields == {"vec_inliers", "error_max", "projection_matrix"}

\* the intrinsics argument of the last Localize call is a valid pinhole camera
CalledWithValidPinhole ==
  /\ call.optionalIntrinsics # NullPtr.id
  /\ call.entry.intrinsics.type \in PinholeFamily
  /\ call.entry.intrinsics.valid

\* C1: when the strong support check answers false, Localize returns false and
\* the caller's pose and the projection matrix of the match data are as they
\* were at entry, on every path; of the match data only the inlier set and the
\* error threshold may differ from their entry values.
C1_WeakSupportLeavesPoseAndMatrix ==
  (LocalizeReturned /\ ~call.resection) =>
    /\ call.ret = FALSE
    /\ pose = call.entry.pose
    /\ resectionData.projection_matrix = call.entry.resectionData.projection_matrix
    /\ \A f \in DOMAIN resectionData \ {"vec_inliers", "error_max"} :
         resectionData[f] = call.entry.resectionData[f]

\* a weak resection on the local optimization path whose fitted matrix differs
\* from the matrix the match data held
C1_Witness ==
  /\ LocalizeReturned /\ ~call.resection
  /\ call.path = "LORANSAC"
  /\ call.P # call.entry.resectionData.projection_matrix
  /\ resectionData.vec_inliers # call.entry.resectionData.vec_inliers

\* C2 as stated: every Localize call whose estimator is neither ACRANSAC nor
\* LORANSAC throws the unsupported estimator error, whatever the intrinsics.
C2_UnsupportedEstimatorAlwaysThrows ==
  (LocalizeCalled /\ call.estimator \notin SupportedEstimators) => LocalizeThrew

\* C2 amended: a Localize call whose estimator is neither ACRANSAC nor LORANSAC
\* throws exactly when its intrinsics are a valid pinhole camera; with absent,
\* non pinhole or invalid intrinsics it returns the verdict of the uncalibrated
\* resection. A call with a supported estimator never throws.
C2_UnsupportedEstimatorThrowsWhenCalibrated ==
  LocalizeCalled =>
    /\ LocalizeThrew <=>
         (call.estimator \notin SupportedEstimators /\ CalledWithValidPinhole)
    /\ (call.estimator \notin SupportedEstimators /\ ~CalledWithValidPinhole) =>
         (call.path = "uncalibrated" /\ call.ret = call.resection)

\* an unsupported estimator given with a valid pinhole camera: the call threw
C2_Witness ==
  /\ LocalizeThrew
  /\ call.estimator = "RANSAC"
  /\ CalledWithValidPinhole

\* C3: on the calibrated path with LORANSAC an unbounded entry threshold is
\* replaced by 4.0, the scorer threshold is that value squared times the squared
\* normalization scale, and the match data holds that value after the call; a
\* finite entry threshold is kept and is the one the scorer is built from.
C3_LoRansacThreshold ==
  (LocalizeReturned /\ call.path = "LORANSAC") =>
    LET entryMax == call.entry.resectionData.error_max
        used == IF entryMax = Infinity THEN DefaultLoThreshold ELSE entryMax
    IN /\ resectionData.error_max = used
       /\ \E n \in Normalizers :
            /\ call.normalizer = {n}
            /\ call.scorerThreshold = {(used * used) * (n * n)}

\* an unbounded threshold on the local optimization path, scale other than 1
C3_Witness ==
  /\ LocalizeReturned /\ call.path = "LORANSAC"
  /\ call.entry.resectionData.error_max = Infinity
  /\ resectionData.error_max = DefaultLoThreshold
  /\ call.normalizer = {3}

\* C4 as stated: on every Localize call that returns true the inlier set, the
\* error threshold and the projection matrix have all three been overwritten by
\* that call with values produced by its estimator run.
C4_SuccessOverwritesAllThree ==
  (LocalizeReturned /\ call.ret) =>
    \A f \in ResultFields : [field |-> f, from |-> "estimator"] \in call.writes

\* C4 amended: on every Localize call that returns true the inlier set and the
\* projection matrix hold the values produced by that call's estimator run; the
\* error threshold holds the estimated precision on the two adaptive paths only,
\* and on the LORANSAC path it holds the entry value when that was finite and
\* the default 4.0, which no estimator produced, when it was unbounded.
C4_SuccessOverwritesInliersAndMatrix ==
  (LocalizeReturned /\ call.ret) =>
    /\ [field |-> "vec_inliers", from |-> "estimator"] \in call.writes
    /\ [field |-> "projection_matrix", from |-> "estimator"] \in call.writes
    /\ resectionData.vec_inliers = call.inliers
    /\ resectionData.projection_matrix = call.P
    /\ call.path \in AdaptivePaths =>
         /\ [field |-> "error_max", from |-> "estimator"] \in call.writes
         /\ call.precisionOut = {resectionData.error_max}
    /\ call.path = "LORANSAC" =>
         /\ [field |-> "error_max", from |-> "estimator"] \notin call.writes
         /\ call.precisionOut = {}
         /\ resectionData.error_max =
              IF call.entry.resectionData.error_max = Infinity
              THEN DefaultLoThreshold
              ELSE call.entry.resectionData.error_max

\* a successful resection on the local optimization path with a finite threshold
C4_Witness ==
  /\ LocalizeReturned /\ call.ret
  /\ call.path = "LORANSAC"
  /\ call.entry.resectionData.error_max # Infinity
  /\ resectionData.projection_matrix # call.entry.resectionData.projection_matrix
  /\ resectionData.vec_inliers # <<>>

\* C5: on the uncalibrated path and on the calibrated ACRANSAC path the error
\* threshold of the match data is the precision ACRANSAC estimated, whatever the
\* entry threshold and whatever the strong support check answers; the upper
\* bound given to ACRANSAC is infinity for an unbounded entry threshold and the
\* square of the entry threshold otherwise.
C5_AdaptivePrecisionStored ==
  (LocalizeReturned /\ call.path \in AdaptivePaths) =>
    LET entryMax == call.entry.resectionData.error_max
    IN /\ call.precisionOut = {resectionData.error_max}
       /\ call.upperBound =
            {IF entryMax = Infinity THEN Infinity ELSE entryMax * entryMax}

\* a weak resection where ACRANSAC reported a looser precision than supplied
C5_Witness ==
  /\ LocalizeReturned /\ call.path = "ACRANSAC" /\ ~call.resection
  /\ call.entry.resectionData.error_max = 2
  /\ call.upperBound = {4}
  /\ resectionData.error_max = Infinity

\* C6: Localize takes the uncalibrated path (six point solver under ACRANSAC,
\* minimum sample count 6 for the strong support check) exactly when the
\* intrinsics are absent, not a pinhole camera or invalid, whatever the
\* estimator; otherwise it takes the calibrated path, with the P3P solver and
\* minimum sample count 3 for both estimators. Invalid intrinsics alone never
\* make the call fail.
C6_PathSelection ==
  LocalizeCalled =>
    /\ call.path = "uncalibrated" <=> ~CalledWithValidPinhole
    /\ call.path = "uncalibrated" =>
         /\ call.outcome = "returned"
         /\ call.solver = "SixPoint"
         /\ call.upperBound # {}
         /\ call.supportArgs[3] = 6
         /\ call.ret = call.resection
    /\ (CalledWithValidPinhole /\ call.estimator \in SupportedEstimators) =>
         /\ call.path = call.estimator
         /\ call.solver = "P3P"
         /\ call.supportArgs[3] = 3

\* an invalid pinhole camera given with LORANSAC: a successful classic resection
C6_Witness ==
  /\ LocalizeReturned /\ call.ret
  /\ call.path = "uncalibrated"
  /\ call.estimator = "LORANSAC"
  /\ call.optionalIntrinsics # NullPtr.id
  /\ call.entry.intrinsics.type \in PinholeFamily
  /\ ~call.entry.intrinsics.valid

\* C7: no Localize call changes the caller's 2D points, 3D points, descriptor
\* types, iteration budget or intrinsics; the kernel receives the undistorted
\* points, held in a local matrix, when the path is calibrated and the camera
\* has distortion, and the caller's 2D points otherwise.
C7_CorrespondencesUntouched ==
  LocalizeCalled =>
    LET before == call.entry.resectionData
        cam == call.entry.intrinsics
    IN /\ resectionData.pt2D = before.pt2D
       /\ resectionData.pt3D = before.pt3D
       /\ resectionData.vec_descType = before.vec_descType
       /\ resectionData.max_iteration = before.max_iteration
       /\ intrinsics = cam
       /\ LocalizeReturned =>
            call.kernelPt2D =
              IF call.path # "uncalibrated" /\ cam.have_disto
              THEN [i \in 1..NumPts |-> get_ud_pixel(cam, before.pt2D[i])]
              ELSE before.pt2D

\* a calibrated resection with distortion: the kernel got other points than
\* the match data holds
C7_Witness ==
  /\ LocalizeReturned
  /\ call.path = "LORANSAC"
  /\ call.entry.intrinsics.have_disto
  /\ call.kernelPt2D # resectionData.pt2D

\* C8: RefinePose changes the caller's intrinsics only when refineIntrinsic is
\* true and the bundle adjustment succeeded, and then by giving the caller's
\* object the state of the refined clone; the object and its type stay, and the
\* scene never holds the caller's object.
C8_IntrinsicsOnlyAssigned ==
  RefinePoseCalled =>
    LET before == call.entry.intrinsics
        refined == call.adjusted.intrinsics[0]
    IN /\ call.tinyScene.intrinsics[0].id # before.id
       /\ intrinsics.id = before.id
       /\ intrinsics.type = before.type
       /\ IF call.refineIntrinsic /\ call.baStatus
          THEN intrinsics = [refined EXCEPT !.id = before.id]
          ELSE intrinsics = before

\* a refinement of the intrinsics that changed the caller's parameters
C8_Witness ==
  /\ RefinePoseCalled
  /\ call.refineIntrinsic /\ call.baStatus
  /\ intrinsics.params # call.entry.intrinsics.params

\* C9: the mask given to the bundle adjustment frees rotation and translation
\* iff refinePose, all intrinsics iff refineIntrinsic, and nothing else; the
\* scene given with it has one landmark per inlier of the match data, each
\* with a single observation, in view 0.
C9_MaskAndScene ==
  RefinePoseCalled =>
    LET inliers == resectionData.vec_inliers
        structure == call.tinyScene.structure
    IN /\ \A o \in {"BA_REFINE_ROTATION", "BA_REFINE_TRANSLATION"} :
            o \in call.refineOptions <=> call.refinePose
       /\ "BA_REFINE_INTRINSICS_ALL" \in call.refineOptions <=> call.refineIntrinsic
       /\ call.refineOptions \subseteq
            {"BA_REFINE_ROTATION", "BA_REFINE_TRANSLATION", "BA_REFINE_INTRINSICS_ALL"}
       /\ call.tinyScene.views = {0}
       /\ Cardinality(DOMAIN structure) = Len(inliers)
       /\ \A i \in 1..Len(inliers) :
            /\ (i - 1) \in DOMAIN structure
            /\ DOMAIN structure[i - 1].observations = {0}
            /\ structure[i - 1].X = resectionData.pt3D[inliers[i]]
            /\ structure[i - 1].observations[0].x = resectionData.pt2D[inliers[i]]

\* a refinement of the pose alone on two inliers
C9_Witness ==
  /\ RefinePoseCalled
  /\ call.refinePose /\ ~call.refineIntrinsic
  /\ Len(resectionData.vec_inliers) = 2

\* C10: when the bundle adjustment fails RefinePose returns false and the pose,
\* the intrinsics and the match data are as they were at entry, for every
\* combination of the two flags.
C10_FailedRefinementHasNoEffect ==
  (RefinePoseCalled /\ ~call.baStatus) =>
    /\ call.ret = FALSE
    /\ pose = call.entry.pose
    /\ intrinsics = call.entry.intrinsics
    /\ resectionData = call.entry.resectionData

\* a failed refinement whose scene held another pose and other parameters
C10_Witness ==
  /\ RefinePoseCalled /\ ~call.baStatus
  /\ call.refinePose /\ call.refineIntrinsic
  /\ call.adjusted.poses[0] # call.entry.pose
  /\ call.adjusted.intrinsics[0].params # call.entry.intrinsics.params

====
